---- MODULE Spec2Model ----
(***************************************************************************)
(* juniper-compose: a model of the code generated by the two macros        *)
(* (composable_object, composite_object) and of type_to_owned.             *)
(*                                                                         *)
(* A partial object type is a record                                       *)
(*   [name   : its GraphQLType::name(&()) (NoName for Option::None),       *)
(*    fields : its ComposableObject::fields() list,                        *)
(*    meta   : the field names its own GraphQLType::meta() describes]      *)
(* and a composite is the expansion of composite_object!: its name         *)
(* literal, its Context type and the ordered list of its composables.      *)
(***************************************************************************)
EXTENDS Integers, Sequences, FiniteSets, TLC

\* ---------------------------------------------------------------- bounds
\* composables of one composite
MaxPartials == 2
\* field names listed by all composables of one composite together
MaxFields == 3
\* nesting of a type reference
MaxDepth == 3
\* items of one impl block
MaxItems == 2
\* characters of one identifier
MaxIdentLen == 2
\* futures alive at once
MaxCalls == 2
\* suspensions of one delegate future
MaxSuspend == 2

\* ------------------------------------------------------------- vocabulary
FieldNames == {"getUser", "getTask"}
RequestNames == FieldNames \cup {"deleteUser"}
BadArgument == "id=unknown"
ArgumentValues == {"id=1", BadArgument}
NoName == "None"
PartialNames == {"UserQueries", NoName}
CompositeName == "Query"
UnitType == "()"

VARIABLES
    input,       \* tokens handed to composite_object!
    composite,   \* what composite_object! expanded to
    metaResult,  \* outcome of the last <composite as GraphQLType>::meta
    dispatch,    \* outcome of the last resolve_field / resolve_field_async
    futures,     \* futures returned by resolve_field_async, still alive
    item_impl,   \* impl block handed to #[composable_object]
    fieldsImpl,  \* the ComposableObject impl that macro generated
    ty,          \* a type reference handed to type_to_owned
    owned        \* what type_to_owned returned

vars == <<input, composite, metaResult, dispatch, futures,
          item_impl, fieldsImpl, ty, owned>>

None == [tag |-> "None"]

\* ------------------------------------------------------------------ Type
\* juniper::Type<'a>: Named(Cow<str>) | NonNullNamed(Cow<str>)
\*                  | List(Box<Type>) | NonNullList(Box<Type>)
Borrowed(s) == [cow |-> "Borrowed", str |-> s]
Owned(s) == [cow |-> "Owned", str |-> s]
Named(n) == [variant |-> "Named", name |-> n]
NonNullNamed(n) == [variant |-> "NonNullNamed", name |-> n]
List(t) == [variant |-> "List", inner |-> t]
NonNullList(t) == [variant |-> "NonNullList", inner |-> t]

IsLeaf(t) == t.variant \in {"Named", "NonNullNamed"}

\* Cow<str>::to_string: the characters, whichever variant holds them
to_string(c) == c.str

\* a conversion that forgets the non-null marker of lists
RECURSIVE type_to_owned_drops_nonnull(_)
type_to_owned_drops_nonnull(t) ==
    CASE t.variant = "Named" -> Named(Owned(to_string(t.name)))
      [] t.variant = "NonNullNamed" -> NonNullNamed(Owned(to_string(t.name)))
      [] t.variant = "List" -> List(type_to_owned_drops_nonnull(t.inner))
      [] t.variant = "NonNullList" -> List(type_to_owned_drops_nonnull(t.inner))

RECURSIVE type_to_owned(_)
type_to_owned(t) ==
    CASE t.variant = "Named" -> Named(Owned(to_string(t.name)))
      [] t.variant = "NonNullNamed" -> NonNullNamed(Owned(to_string(t.name)))
      [] t.variant = "List" -> List(type_to_owned(t.inner))
      [] t.variant = "NonNullList" -> NonNullList(type_to_owned(t.inner))

\* ------------------------------------------------------- partial objects
\* the descriptor <P as GraphQLType>::meta holds for field f of the i-th
\* composable; None when that metadata has no such field
field_by_name(p, i, f) ==
    IF f \in p.meta
    THEN [tag |-> "Some",
          name |-> f,
          description |-> <<"field of composable", i>>,
          arguments |-> <<[name |-> "id",
                           arg_type |-> NonNullNamed(Borrowed("ID"))]>>,
          field_type |-> List(NonNullNamed(Borrowed("String")))]
    ELSE None

\* <P as GraphQLValue>::resolve_field / resolve_field_async of the i-th
\* composable on a default instance: P's own value, or P's own error
\* (its resolver fails on the argument it does not know)
PartialResolve(p, i, field_name, arguments) ==
    IF arguments # BadArgument
    THEN [ok |-> TRUE,
          body |-> [by |-> i, field |-> field_name, arguments |-> arguments]]
    ELSE [ok |-> FALSE,
          body |-> [by |-> i, field |-> field_name, arguments |-> arguments]]

\* --------------------------------------------------------- GraphQLType::meta
Conflicting(field_name) ==
    [kind |-> "Conflicting field in composed objects", field |-> field_name]

Incorrect(type_name, field_name) ==
    [kind |-> "Incorrect implementation of ComposableObject",
     type |-> type_name, field |-> field_name]

TypeNameOrAnonymous(p) == IF p.name = NoName THEN "<anonymous>" ELSE p.name

\* the juniper::meta::Field pushed for one descriptor
CopyField(composable_field) ==
    [name |-> composable_field.name,
     description |-> composable_field.description,
     arguments |-> [k \in DOMAIN composable_field.arguments |->
                      [name |-> composable_field.arguments[k].name,
                       arg_type |-> type_to_owned(
                           composable_field.arguments[k].arg_type)]],
     field_type |-> type_to_owned(composable_field.field_type)]

Panicked(error, visited) ==
    [status |-> "panicked", error |-> error, fields |-> <<>>,
     name |-> NoName, visited |-> visited]

Registered(name_lit, fields, visited) ==
    [status |-> "registered", error |-> None, fields |-> fields,
     name |-> name_lit, visited |-> visited]

\* one iteration of the inner for loop, with the metadata lookup made
\* before the seen_field_names test
MetaStepLookupFirst(p, i, field_name, seen) ==
    IF field_by_name(p, i, field_name) = None
    THEN [panic |-> TRUE,
          error |-> Incorrect(TypeNameOrAnonymous(p), field_name)]
    ELSE IF field_name \in seen
    THEN [panic |-> TRUE, error |-> Conflicting(field_name)]
    ELSE [panic |-> FALSE,
          field |-> CopyField(field_by_name(p, i, field_name))]

\* one iteration of the inner for loop that reports the composite's name
MetaStepOwnName(p, i, field_name, seen) ==
    IF field_name \in seen
    THEN [panic |-> TRUE, error |-> Conflicting(field_name)]
    ELSE IF field_by_name(p, i, field_name) = None
    THEN [panic |-> TRUE, error |-> Incorrect(CompositeName, field_name)]
    ELSE [panic |-> FALSE,
          field |-> CopyField(field_by_name(p, i, field_name))]

\* one iteration of the inner for loop of meta
MetaStep(p, i, field_name, seen) ==
    IF field_name \in seen
    THEN [panic |-> TRUE, error |-> Conflicting(field_name)]
    ELSE IF field_by_name(p, i, field_name) = None
    THEN [panic |-> TRUE,
          error |-> Incorrect(TypeNameOrAnonymous(p), field_name)]
    ELSE [panic |-> FALSE,
          field |-> CopyField(field_by_name(p, i, field_name))]

\* fields.push that puts the new descriptor in front
PushFront(fields, field) == <<field>> \o fields

\* fields.push
Push(fields, field) == Append(fields, field)

\* the #( ... )* repetition of meta, from composable i, field j on
RECURSIVE MetaLoop(_, _, _, _, _, _)
MetaLoop(name_lit, composables, i, j, fields, seen) ==
    IF i > Len(composables)
    THEN Registered(name_lit, fields, Len(composables))
    ELSE IF j > Len(composables[i].fields)
    THEN MetaLoop(name_lit, composables, i + 1, 1, fields, seen)
    ELSE LET field_name == composables[i].fields[j]
             step == MetaStep(composables[i], i, field_name, seen)
         IN  IF step.panic
             THEN Panicked(step.error, i)
             ELSE MetaLoop(name_lit, composables, i, j + 1,
                           Push(fields, step.field),
                           seen \cup {field_name})

meta(c) == MetaLoop(c.name, c.composables, 1, 1, <<>>, {})

\* ------------------------------------------------- GraphQLValue dispatch
NotFoundSwapped(field_name, name_lit) ==
    [kind |-> "Field not found on type", field |-> name_lit,
     type |-> field_name]

\* format!("Field `{}` not found on type `{}`", field_name, name_lit)
NotFound(field_name, name_lit) ==
    [kind |-> "Field not found on type", field |-> field_name,
     type |-> name_lit]

Contains(fields, field_name) ==
    \E k \in 1..Len(fields) : fields[k] = field_name

\* an if-chain that keeps the last matching composable
LastMatchFrom(composables, i, field_name) ==
    LET hits == {k \in i..Len(composables) :
                    Contains(composables[k].fields, field_name)}
    IN  IF hits = {} THEN [found |-> FALSE, index |-> 0,
                           tested |-> Len(composables)]
        ELSE [found |-> TRUE,
              index |-> CHOOSE k \in hits : \A h \in hits : h <= k,
              tested |-> Len(composables)]

\* an if-chain generated for the first composable only
FirstOnlyFrom(composables, i, field_name) ==
    IF i <= Len(composables) /\ Contains(composables[i].fields, field_name)
    THEN [found |-> TRUE, index |-> i, tested |-> i]
    ELSE [found |-> FALSE, index |-> 0, tested |-> 0]

\* the #( if fields().contains(&field_name) { return ... } )* chain
RECURSIVE MatchFrom(_, _, _)
MatchFrom(composables, i, field_name) ==
    IF i > Len(composables)
    THEN [found |-> FALSE, index |-> 0, tested |-> Len(composables)]
    ELSE IF Contains(composables[i].fields, field_name)
    THEN [found |-> TRUE, index |-> i, tested |-> i]
    ELSE MatchFrom(composables, i + 1, field_name)

\* body shared by resolve_field and the future of resolve_field_async
ResolveOutcome(c, op, field_name, arguments) ==
    LET m == MatchFrom(c.composables, 1, field_name)
    IN  [op |-> op, field_name |-> field_name, arguments |-> arguments,
         tested |-> m.tested,
         delegate |-> m.index,
         constructed |-> IF m.found THEN {m.index} ELSE {},
         result |-> IF m.found
                    THEN PartialResolve(c.composables[m.index], m.index,
                                        field_name, arguments)
                    ELSE [ok |-> FALSE,
                          body |-> NotFound(field_name, c.name)]]

NoDispatch ==
    [op |-> "none", field_name |-> "", arguments |-> "", tested |-> 0,
     delegate |-> 0, constructed |-> {}, result |-> None]


\* ------------------------------------------- resolve_field_async futures
NoDelegate == [state |-> "none", left |-> 0, result |-> None]

\* the Box::pin(async move { ... }) resolve_field_async returns: the
\* if-chain has run, nothing inside the async block has
NewFuture(c, field_name, arguments) ==
    LET m == MatchFrom(c.composables, 1, field_name)
    IN  [tag |-> "Future", field_name |-> field_name,
         arguments |-> arguments, tested |-> m.tested, branch |-> m.index,
         state |-> "created", started |-> 0, constructed |-> {},
         delegate |-> NoDelegate, lastPoll |-> "none", output |-> None]

\* Future::poll of the delegate P::resolve_field_async future
PollDelegate(d) ==
    IF d.left > 0
    THEN [d EXCEPT !.state = "pending", !.left = d.left - 1]
    ELSE [d EXCEPT !.state = "ready"]

\* a poll that yields once more after the delegate is ready
PollFutureExtraYield(c, fut, suspends) ==
    IF fut.state = "created" /\ fut.branch = 0
    THEN [fut EXCEPT !.state = "done", !.lastPoll = "Ready",
                     !.output = [ok |-> FALSE,
                                 body |-> NotFound(fut.field_name, c.name)]]
    ELSE LET started == IF fut.state = "created"
                        THEN [state |-> "none", left |-> suspends,
                              result |-> PartialResolve(
                                  c.composables[fut.branch], fut.branch,
                                  fut.field_name, fut.arguments)]
                        ELSE fut.delegate
             d == IF started.state = "ready" THEN started
                  ELSE PollDelegate(started)
             f1 == IF fut.state = "created"
                   THEN [fut EXCEPT !.started = fut.started + 1,
                                    !.constructed = {fut.branch}]
                   ELSE fut
         IN  IF d.state = "ready" /\ started.state = "ready"
             THEN [f1 EXCEPT !.state = "done", !.delegate = d,
                             !.lastPoll = "Ready", !.output = d.result]
             ELSE [f1 EXCEPT !.state = "awaiting", !.delegate = d,
                             !.lastPoll = "Pending"]

\* Future::poll of the future resolve_field_async returned; suspends is
\* how often the delegate started by this poll is going to suspend
PollFuture(c, fut, suspends) ==
    IF fut.state = "created" /\ fut.branch = 0
    THEN [fut EXCEPT !.state = "done", !.lastPoll = "Ready",
                     !.output = [ok |-> FALSE,
                                 body |-> NotFound(fut.field_name, c.name)]]
    ELSE LET started == IF fut.state = "created"
                        THEN [state |-> "none", left |-> suspends,
                              result |-> PartialResolve(
                                  c.composables[fut.branch], fut.branch,
                                  fut.field_name, fut.arguments)]
                        ELSE fut.delegate
             d == PollDelegate(started)
             f1 == IF fut.state = "created"
                   THEN [fut EXCEPT !.started = fut.started + 1,
                                    !.constructed = {fut.branch}]
                   ELSE fut
         IN  IF d.state = "ready"
             THEN [f1 EXCEPT !.state = "done", !.delegate = d,
                             !.lastPoll = "Ready", !.output = d.result]
             ELSE [f1 EXCEPT !.state = "awaiting", !.delegate = d,
                             !.lastPoll = "Pending"]

\* .await of the returned future by the caller: poll until Ready
RECURSIVE Await(_, _, _)
Await(c, fut, suspends) ==
    IF fut.state = "done" THEN fut
    ELSE Await(c, PollFuture(c, fut, suspends), suspends)

AsyncOutcome(fut) ==
    [op |-> "resolve_field_async", field_name |-> fut.field_name,
     arguments |-> fut.arguments, tested |-> fut.tested,
     delegate |-> fut.branch, constructed |-> fut.constructed,
     result |-> fut.output]

\* ------------------------------------------------ composite_object! macro
\* Error::new(context_ident.span(), ..): the message, its back-quotes dropped
ExpectedContext == "expected Context"

\* CompositeObjectCustomContextType::parse
ParseContext(clause) ==
    IF clause.context_ident # "Context"
    THEN [ok |-> FALSE, message |-> ExpectedContext]
    ELSE [ok |-> TRUE, ty |-> clause.ty]

\* a macro that always takes the unit context
ExpandUnitContext(in) ==
    IF in.context_ty # None /\ ~ParseContext(in.context_ty).ok
    THEN [tag |-> "Error", message |-> ParseContext(in.context_ty).message]
    ELSE [tag |-> "Generated", name |-> in.ident, context |-> UnitType,
          composables |-> in.composables]

\* composite_object: CompositeObjectInput::parse, then
\* expand_composite_object with the context or the unit type
Expand(in) ==
    IF in.context_ty # None /\ ~ParseContext(in.context_ty).ok
    THEN [tag |-> "Error", message |-> ParseContext(in.context_ty).message]
    ELSE [tag |-> "Generated", name |-> in.ident,
          context |-> IF in.context_ty = None THEN UnitType
                      ELSE ParseContext(in.context_ty).ty,
          composables |-> in.composables]

\* ---------------------------------------------------------------- inputs
SeqsUpTo(S, n) == UNION {[1..k -> S] : k \in 0..n}

\* the numbers of fields n composables list, MaxFields at most together
RECURSIVE Sum(_, _)
Sum(lens, k) == IF k = 0 THEN 0 ELSE lens[k] + Sum(lens, k - 1)

Shapes(n) ==
    {lens \in [1..n -> 0..MaxFields] : Sum(lens, n) <= MaxFields}

\* n partial object types: the i-th has the name names[i], the metadata
\* metas[i] and lists the next lens[i] names of flat
Partials(lens, names, metas, flat) ==
    [i \in DOMAIN lens |->
        [name |-> names[i], meta |-> metas[i],
         fields |-> SubSeq(flat, Sum(lens, i - 1) + 1, Sum(lens, i))]]

\* a partial object type as #[graphql_object] makes it: named, with
\* metadata for exactly the listed fields
IsDerived(p) ==
    /\ p.name # NoName
    /\ p.meta = {p.fields[k] : k \in 1..Len(p.fields)}

\* a derived partial object type that lists one field
IsSingleField(p) == IsDerived(p) /\ Len(p.fields) = 1

\* the kinds of partial object types a specification composes
OfKind(kind, p) ==
    CASE kind = "any" -> TRUE
      [] kind = "derived" -> IsDerived(p)
      [] kind = "single field" -> IsSingleField(p)

ContextClauses ==
    {[context_ident |-> id, ty |-> t] :
        id \in {"Context", "Ctx", "context"}, t \in {"MyContext", UnitType}}

\* --------------------------------------------------------------- actions
Idle ==
    /\ metaResult = None
    /\ dispatch = NoDispatch
    /\ futures = [k \in 1..MaxCalls |-> None]
    /\ item_impl = None
    /\ fieldsImpl = None
    /\ ty = None
    /\ owned = None

\* the macro input is a composite name, one of the clauses, and up to
\* MaxPartials partial object types of the given kind
InputOver(clauses, kind) ==
    \E n \in 0..MaxPartials : \E lens \in Shapes(n) :
        \E names \in [1..n -> PartialNames],
           metas \in [1..n -> SUBSET FieldNames],
           flat \in [1..Sum(lens, n) -> FieldNames],
           cl \in clauses :
            /\ \A i \in 1..n :
                  OfKind(kind, Partials(lens, names, metas, flat)[i])
            /\ input = [ident |-> CompositeName, context_ty |-> cl,
                        composables |-> Partials(lens, names, metas, flat)]

\* a composite without a context clause over derived partial object
\* types, about to be expanded, built and queried
Init ==
    /\ InputOver({None}, "derived")
    /\ composite = None
    /\ Idle

\* composite_object!(Name<Context = T>(P1, .., Pk))
CompositeObject ==
    /\ input # None
    /\ composite = None
    /\ composite' = Expand(input)
    /\ UNCHANGED <<input, metaResult, dispatch, futures,
                   item_impl, fieldsImpl, ty, owned>>

\* <Composite as GraphQLType>::meta(info, registry)
Meta ==
    /\ composite.tag = "Generated"
    /\ metaResult' = meta(composite)
    /\ UNCHANGED <<input, composite, dispatch, futures,
                   item_impl, fieldsImpl, ty, owned>>

\* <Composite as GraphQLValue>::resolve_field
ResolveField ==
    /\ composite.tag = "Generated"
    /\ \E field_name \in RequestNames, arguments \in ArgumentValues :
          dispatch' = ResolveOutcome(composite, "resolve_field",
                                     field_name, arguments)
    /\ UNCHANGED <<input, composite, metaResult, futures,
                   item_impl, fieldsImpl, ty, owned>>

\* <Composite as GraphQLValueAsync>::resolve_field_async(..).await
ResolveFieldAsync ==
    /\ composite.tag = "Generated"
    /\ \E field_name \in RequestNames, arguments \in ArgumentValues,
          suspends \in 0..MaxSuspend :
          dispatch' = AsyncOutcome(
              Await(composite, NewFuture(composite, field_name, arguments),
                    suspends))
    /\ UNCHANGED <<input, composite, metaResult, futures,
                   item_impl, fieldsImpl, ty, owned>>

Next == CompositeObject \/ Meta \/ ResolveField \/ ResolveFieldAsync

Spec == Init /\ [][Next]_vars


\* ---- metadata construction alone, over every partial object type
InitMeta ==
    /\ InputOver({None}, "any")
    /\ composite = None
    /\ Idle

NextMeta == CompositeObject \/ Meta

SpecMeta == InitMeta /\ [][NextMeta]_vars

\* ---- the context clause of composite_object!
InitContext ==
    /\ InputOver({None} \cup ContextClauses, "derived")
    /\ composite = None
    /\ Idle

SpecContext == InitContext /\ [][Next]_vars

\* ---- resolve_field_async futures polled one poll at a time
InitAsync ==
    /\ InputOver({None}, "single field")
    /\ composite = None
    /\ Idle

\* a caller obtains a future from resolve_field_async
CallAsync(k) ==
    /\ composite.tag = "Generated"
    /\ futures[k] = None
    /\ \E field_name \in RequestNames, arguments \in ArgumentValues :
          futures' = [futures EXCEPT
                         ![k] = NewFuture(composite, field_name, arguments)]
    /\ UNCHANGED <<input, composite, metaResult, dispatch,
                   item_impl, fieldsImpl, ty, owned>>

\* the executor polls a future that is not complete
Poll(k) ==
    /\ futures[k] # None
    /\ futures[k].state # "done"
    /\ \E suspends \in IF futures[k].state = "created"
                         THEN 0..MaxSuspend ELSE {0} :
          futures' = [futures EXCEPT
                         ![k] = PollFuture(composite, futures[k], suspends)]
    /\ UNCHANGED <<input, composite, metaResult, dispatch,
                   item_impl, fieldsImpl, ty, owned>>

\* the caller drops a future, complete or not
DropFuture(k) ==
    /\ futures[k] # None
    /\ futures' = [futures EXCEPT ![k] = None]
    /\ UNCHANGED <<input, composite, metaResult, dispatch,
                   item_impl, fieldsImpl, ty, owned>>

NextAsync ==
    \/ CompositeObject
    \/ \E k \in 1..MaxCalls : CallAsync(k)
    \/ \E k \in 1..MaxCalls : Poll(k)
    \/ \E k \in 1..MaxCalls : DropFuture(k)

SpecAsync == InitAsync /\ [][NextAsync]_vars


\* ------------------------------------ heck::ToLowerCamelCase on identifiers
\* identifiers are sequences of characters over a small alphabet
Alphabet == {"u", "U", "_"}
IsLower(ch) == ch = "u"
IsUpper(ch) == ch = "U"
IsAlphanumeric(ch) == ch \in {"u", "U"}
ToLower(ch) == IF ch = "U" THEN "u" ELSE ch
ToUpper(ch) == IF ch = "u" THEN "U" ELSE ch

\* str::split(|c| !c.is_alphanumeric()): the pieces, empty ones included
RECURSIVE SplitWords(_, _, _)
SplitWords(s, k, word) ==
    IF k > Len(s) THEN <<word>>
    ELSE IF IsAlphanumeric(s[k]) THEN SplitWords(s, k + 1, Append(word, s[k]))
    ELSE <<word>> \o SplitWords(s, k + 1, <<>>)

\* the while loop of heck's transform over one piece: the words it finds
RECURSIVE WordBreaks(_, _, _, _)
WordBreaks(word, k, init, mode) ==
    IF k > Len(word) THEN <<>>
    ELSE IF k = Len(word) THEN <<SubSeq(word, init, Len(word))>>
    ELSE LET c == word[k]
             next == word[k + 1]
             next_mode == IF IsLower(c) THEN "Lowercase"
                          ELSE IF IsUpper(c) THEN "Uppercase"
                          ELSE mode
         IN  IF next_mode = "Lowercase" /\ IsUpper(next)
             THEN <<SubSeq(word, init, k)>>
                      \o WordBreaks(word, k + 1, k + 1, "Boundary")
             ELSE IF mode = "Uppercase" /\ IsUpper(c) /\ IsLower(next)
             THEN <<SubSeq(word, init, k - 1)>>
                      \o WordBreaks(word, k + 1, k, "Boundary")
             ELSE WordBreaks(word, k + 1, init, next_mode)

RECURSIVE Flatten(_)
Flatten(ss) == IF ss = <<>> THEN <<>> ELSE Head(ss) \o Flatten(Tail(ss))

Words(s) ==
    LET pieces == SplitWords(s, 1, <<>>)
    IN  Flatten([k \in DOMAIN pieces |->
                    WordBreaks(pieces[k], 1, 1, "Boundary")])

lowercase(w) == [k \in DOMAIN w |-> ToLower(w[k])]
capitalize(w) ==
    [k \in DOMAIN w |-> IF k = 1 THEN ToUpper(w[k]) ELSE ToLower(w[k])]

\* <str as ToLowerCamelCase>::to_lower_camel_case
to_lower_camel_case(s) ==
    LET ws == Words(s)
    IN  Flatten([k \in DOMAIN ws |->
                    IF k = 1 THEN lowercase(ws[k]) ELSE capitalize(ws[k])])

\* ------------------------------------------- #[composable_object] macro
RECURSIVE MapIdents(_)
MapIdents(items) ==
    IF items = <<>> THEN <<>>
    ELSE <<to_lower_camel_case(Head(items).ident)>> \o MapIdents(Tail(items))

IsMethod(item) == item.kind = "Method"

\* an expansion that lists every item of the block
FieldsOfAllItems(items) == MapIdents(items)

\* expand_composable_object: the literals of fn fields(), i.e.
\* items.iter().filter_map(methods).map(lower camel case of the ident)
FieldsOf(items) == MapIdents(SelectSeq(items, IsMethod))

Identifiers ==
    {s \in UNION {[1..n -> Alphabet] : n \in 1..MaxIdentLen} : s # <<"_">>}

\* the items of an impl block: methods, and associated consts and types
ImplItems ==
    {[kind |-> "Method", ident |-> id] : id \in Identifiers}
        \cup {[kind |-> "Const", ident |-> <<"U">>],
              [kind |-> "Type", ident |-> <<"U", "u">>]}

InitFields ==
    /\ item_impl \in {[self_ty |-> "UserQueries", items |-> its] :
                         its \in SeqsUpTo(ImplItems, MaxItems)}
    /\ fieldsImpl = None
    /\ input = None
    /\ composite = None
    /\ metaResult = None
    /\ dispatch = NoDispatch
    /\ futures = [k \in 1..MaxCalls |-> None]
    /\ ty = None
    /\ owned = None

\* #[composable_object] impl P { .. }
ComposableObject ==
    /\ item_impl # None
    /\ fieldsImpl = None
    /\ fieldsImpl' = [tag |-> "Impl", self_ty |-> item_impl.self_ty,
                      fields |-> FieldsOf(item_impl.items),
                      returned |-> None]
    /\ UNCHANGED <<input, composite, metaResult, dispatch, futures,
                   item_impl, ty, owned>>

\* <P as ComposableObject>::fields()
Fields ==
    /\ fieldsImpl # None
    /\ fieldsImpl' = [fieldsImpl EXCEPT
                         !.returned = [tag |-> "Some",
                                       list |-> fieldsImpl.fields]]
    /\ UNCHANGED <<input, composite, metaResult, dispatch, futures,
                   item_impl, ty, owned>>

NextFields == ComposableObject \/ Fields

SpecFields == InitFields /\ [][NextFields]_vars

\* ----------------------------------------------------------- type_to_owned
TypeNames == {"Int", "User"}

Cows == {Borrowed(n) : n \in TypeNames} \cup {Owned(n) : n \in TypeNames}

RECURSIVE TypesOfDepth(_)
TypesOfDepth(d) ==
    IF d = 0
    THEN {Named(c) : c \in Cows} \cup {NonNullNamed(c) : c \in Cows}
    ELSE LET inner == TypesOfDepth(d - 1)
         IN  {List(t) : t \in inner} \cup {NonNullList(t) : t \in inner}

Types == UNION {TypesOfDepth(d) : d \in 0..MaxDepth}

InitType ==
    /\ ty \in Types
    /\ owned = None
    /\ input = None
    /\ composite = None
    /\ metaResult = None
    /\ dispatch = NoDispatch
    /\ futures = [k \in 1..MaxCalls |-> None]
    /\ item_impl = None
    /\ fieldsImpl = None

\* a call of type_to_owned(&ty)
TypeToOwned ==
    /\ ty # None
    /\ owned' = type_to_owned(ty)
    /\ UNCHANGED <<input, composite, metaResult, dispatch, futures,
                   item_impl, fieldsImpl, ty>>

NextType == TypeToOwned

SpecType == InitType /\ [][NextType]_vars


\* ================================================================ claims
Range(q) == {q[k] : k \in DOMAIN q}

Composables == composite.composables

Generated == composite # None /\ composite.tag = "Generated"

\* the indices of the composables whose static list holds field_name
Holders(cs, field_name) ==
    {i \in DOMAIN cs : field_name \in Range(cs[i].fields)}

Least(S) == CHOOSE i \in S : \A h \in S : i <= h

\* ---------------------------------------------------------------- C1
\* C1: a dispatch (resolve_field or resolve_field_async) of a field name
\* that some composable lists tests the lists in declaration order up to
\* the first composable listing it and no further, default-constructs
\* that composable only, hands it the same field name and arguments, and
\* returns that composable's own result, value or error, unchanged.
Thm_C1_FirstMatchDelegation ==
    (Generated /\ dispatch.op # "none"
        /\ Holders(Composables, dispatch.field_name) # {})
    => LET i == Least(Holders(Composables, dispatch.field_name))
       IN  /\ dispatch.delegate = i
           /\ dispatch.tested = i
           /\ dispatch.constructed = {i}
           /\ dispatch.result.body =
                 [by |-> i, field |-> dispatch.field_name,
                  arguments |-> dispatch.arguments]
           /\ dispatch.result.ok = (dispatch.arguments # "id=unknown")

\* an asynchronous dispatch of a name two composables list went to the
\* first of them and passed its error through
Wit_C1_FirstOfTwoError ==
    /\ Generated
    /\ dispatch.op = "resolve_field_async"
    /\ Holders(Composables, dispatch.field_name) = {1, 2}
    /\ dispatch.delegate = 1
    /\ ~dispatch.result.ok

\* ---------------------------------------------------------------- C4
\* C4: a dispatch (resolve_field or resolve_field_async) of a field name
\* that no composable lists, also when there is no composable at all,
\* returns as an Err value the error "Field <name> not found on type
\* <composite>" with the composite's own name, constructs no composable
\* and delegates to none.
Thm_C4_NotFoundError ==
    (Generated /\ dispatch.op # "none"
        /\ Holders(Composables, dispatch.field_name) = {})
    => /\ dispatch.result =
             [ok |-> FALSE,
              body |-> [kind |-> "Field not found on type",
                        field |-> dispatch.field_name,
                        type |-> composite.name]]
       /\ composite.name = CompositeName
       /\ \A i \in DOMAIN Composables : Composables[i].name # composite.name
       /\ dispatch.constructed = {}
       /\ dispatch.delegate = 0

\* a synchronous dispatch of an unlisted name on a composite of two
\* composables that both list fields
Wit_C4_UnlistedName ==
    /\ Generated
    /\ dispatch.op = "resolve_field"
    /\ dispatch.field_name = "deleteUser"
    /\ Len(Composables) = 2
    /\ \A i \in 1..2 : Composables[i].fields # <<>>
    /\ ~dispatch.result.ok

\* ---------------------------------------------------------------- C9
\* C9: once meta has registered the composite, a dispatch of a name of
\* the registered field list never takes the not-found branch and goes
\* to the composable whose descriptor meta copied for that name; the
\* not-found branch is taken only for names outside the registered list.
Thm_C9_RegisteredNamesDispatch ==
    (Generated /\ metaResult # None /\ metaResult.status = "registered"
        /\ dispatch.op # "none")
    => LET registered == {metaResult.fields[k].name :
                             k \in DOMAIN metaResult.fields}
       IN  /\ dispatch.field_name \in registered
               => /\ dispatch.delegate # 0
                  /\ \E k \in DOMAIN metaResult.fields :
                        /\ metaResult.fields[k].name = dispatch.field_name
                        /\ metaResult.fields[k].description
                              = <<"field of composable", dispatch.delegate>>
                  /\ dispatch.result.body =
                        [by |-> dispatch.delegate,
                         field |-> dispatch.field_name,
                         arguments |-> dispatch.arguments]
           /\ dispatch.delegate = 0
               => dispatch.field_name \notin registered

\* a registered composite of two composables, the second of which
\* resolved a registered name
Wit_C9_SecondComposableResolves ==
    /\ Generated
    /\ metaResult # None
    /\ metaResult.status = "registered"
    /\ Len(metaResult.fields) = 2
    /\ dispatch.op = "resolve_field"
    /\ dispatch.delegate = 2
    /\ dispatch.result.ok


\* ------------------------------------------------- the walk meta makes
\* the (composable, field name) pairs in the order meta visits them
RECURSIVE WalkFrom(_, _)
WalkFrom(cs, i) ==
    IF i > Len(cs) THEN <<>>
    ELSE [j \in 1..Len(cs[i].fields) |-> [p |-> i, f |-> cs[i].fields[j]]]
            \o WalkFrom(cs, i + 1)

Walk == WalkFrom(Composables, 1)

RepeatedAt(k) == \E h \in 1..(k - 1) : Walk[h].f = Walk[k].f
MissingAt(k) == Walk[k].f \notin Composables[Walk[k].p].meta
RepeatedPositions == {k \in DOMAIN Walk : RepeatedAt(k)}
MissingPositions == {k \in DOMAIN Walk : MissingAt(k)}

\* two different composables list one name
SharesName ==
    \E i, j \in DOMAIN Composables :
        i < j /\ Range(Composables[i].fields)
                    \cap Range(Composables[j].fields) # {}

\* one composable lists a name twice
RepeatsOwnName ==
    \E i \in DOMAIN Composables :
        \E j, k \in DOMAIN Composables[i].fields :
            j < k /\ Composables[i].fields[j] = Composables[i].fields[k]

MetaRan == Generated /\ metaResult # None

NothingRegistered ==
    /\ metaResult.status = "panicked"
    /\ metaResult.name = NoName
    /\ metaResult.fields = <<>>

CollisionErrorAt(k) ==
    [kind |-> "Conflicting field in composed objects", field |-> Walk[k].f]

InconsistencyErrorAt(k) ==
    [kind |-> "Incorrect implementation of ComposableObject",
     type |-> IF Composables[Walk[k].p].name = NoName THEN "<anonymous>"
              ELSE Composables[Walk[k].p].name,
     field |-> Walk[k].f]

\* ---------------------------------------------------------------- C2
\* C2 as stated: when two composables share a field name, meta fails with
\* the collision error naming the first repeated name of the walk and
\* registers nothing.
Orig_C2_CollisionAlways ==
    (MetaRan /\ SharesName)
    => /\ NothingRegistered
       /\ metaResult.error = CollisionErrorAt(Least(RepeatedPositions))

\* C2 amended: when two composables share a field name, meta fails and
\* registers nothing; the error is the collision error naming the first
\* repeated name of the walk, unless a field met earlier in the walk is
\* absent from its own composable's metadata, and then it is the
\* inconsistency error for the first such field.
Thm_C2_CollisionUnlessEarlierMissing ==
    (MetaRan /\ SharesName)
    => LET kr == Least(RepeatedPositions)
           earlier == {k \in MissingPositions : k < kr}
       IN  /\ NothingRegistered
           /\ metaResult.error =
                 IF earlier = {} THEN CollisionErrorAt(kr)
                 ELSE InconsistencyErrorAt(Least(earlier))

\* meta stopped with the collision error at a name of the second
\* composable that the second composable's own metadata lacks
Wit_C2_CollisionAtMissingName ==
    /\ MetaRan
    /\ SharesName
    /\ metaResult.error.kind = "Conflicting field in composed objects"
    /\ metaResult.visited = 2
    /\ Least(RepeatedPositions) \in MissingPositions

\* ---------------------------------------------------------------- C3
\* C3 as stated: when the composables' lists are pairwise disjoint and
\* every listed name is in its own composable's metadata, meta registers
\* the names of all lists, each once, in declaration and list order.
Orig_C3_DisjointRegisters ==
    (MetaRan /\ ~SharesName /\ MissingPositions = {})
    => /\ metaResult.status = "registered"
       /\ [k \in DOMAIN metaResult.fields |-> metaResult.fields[k].name]
             = [k \in DOMAIN Walk |-> Walk[k].f]
       /\ \A h, k \in DOMAIN metaResult.fields :
             metaResult.fields[h].name = metaResult.fields[k].name => h = k

\* C3 amended: when the composables' lists are pairwise disjoint, no
\* list repeats a name of its own and every listed name is in its own
\* composable's metadata, meta registers under the composite's name the
\* names of all lists, each once, in declaration order and within one
\* composable in list order, each descriptor copied from the composable
\* that lists it.
Thm_C3_DisjointRegisters ==
    (MetaRan /\ ~SharesName /\ ~RepeatsOwnName /\ MissingPositions = {})
    => /\ metaResult.status = "registered"
       /\ metaResult.name = composite.name
       /\ [k \in DOMAIN metaResult.fields |-> metaResult.fields[k].name]
             = [k \in DOMAIN Walk |-> Walk[k].f]
       /\ \A h, k \in DOMAIN metaResult.fields :
             metaResult.fields[h].name = metaResult.fields[k].name => h = k
       /\ \A k \in DOMAIN metaResult.fields :
             metaResult.fields[k].description
                = <<"field of composable", Walk[k].p>>

\* meta registered two fields, one from each of two composables
Wit_C3_TwoComposablesRegistered ==
    /\ MetaRan
    /\ metaResult.status = "registered"
    /\ Len(Composables) = 2
    /\ Len(Composables[1].fields) = 1
    /\ Len(Composables[2].fields) = 1
    /\ Len(metaResult.fields) = 2

\* ---------------------------------------------------------------- C6
\* C6 as stated: when a composable lists a field its own metadata lacks,
\* meta fails with the inconsistency error carrying that composable's
\* type name and that field name, and registers nothing, whatever the
\* earlier composables contributed.
Orig_C6_InconsistencyAlways ==
    (MetaRan /\ MissingPositions # {})
    => /\ NothingRegistered
       /\ \E k \in MissingPositions :
             metaResult.error = InconsistencyErrorAt(k)

\* C6 amended: when a composable lists a field its own metadata lacks,
\* meta fails and registers nothing; the error is the inconsistency error
\* carrying the composable's type name (<anonymous> when it has none) and
\* the field name of the first such field of the walk, unless a repeated
\* name is met at or before that field, and then it is the collision
\* error for the first repeated name.
Thm_C6_InconsistencyUnlessCollisionFirst ==
    (MetaRan /\ MissingPositions # {})
    => LET km == Least(MissingPositions)
           sooner == {k \in RepeatedPositions : k <= km}
       IN  /\ NothingRegistered
           /\ metaResult.error =
                 IF sooner = {} THEN InconsistencyErrorAt(km)
                 ELSE CollisionErrorAt(Least(sooner))

\* meta stopped with the inconsistency error in the second composable,
\* an unnamed one, after the first had contributed a field
Wit_C6_InconsistencyInSecond ==
    /\ MetaRan
    /\ metaResult.status = "panicked"
    /\ metaResult.error.kind
          = "Incorrect implementation of ComposableObject"
    /\ metaResult.error.type = "<anonymous>"
    /\ metaResult.visited = 2
    /\ Composables[1].fields # <<>>


\* ---------------------------------------------------------------- C5
MethodPositions ==
    {k \in DOMAIN item_impl.items : item_impl.items[k].kind = "Method"}

\* C5: the fields() that #[composable_object] generates for an impl block
\* has one name per method of the block, the lower camel case of the
\* method's identifier, in the order of the methods, whatever other
\* items stand between them; it is fixed at expansion, and each call
\* returns that same list.
Thm_C5_FieldsAreMethodsInOrder ==
    (fieldsImpl # None)
    => /\ Len(fieldsImpl.fields) = Cardinality(MethodPositions)
       /\ \A k \in MethodPositions :
             fieldsImpl.fields[Cardinality({j \in MethodPositions : j <= k})]
                = to_lower_camel_case(item_impl.items[k].ident)
       /\ \A k \in DOMAIN fieldsImpl.fields :
             /\ "_" \notin Range(fieldsImpl.fields[k])
             /\ fieldsImpl.fields[k] # <<>>
                   => fieldsImpl.fields[k][1] = "u"
       /\ fieldsImpl.returned # None
             => fieldsImpl.returned.list = fieldsImpl.fields

\* fields() was called on a block of a non-method item followed by a
\* method whose identifier is not in lower camel case
Wit_C5_ConstThenSnakeCaseMethod ==
    /\ fieldsImpl # None
    /\ fieldsImpl.returned # None
    /\ Len(item_impl.items) = 2
    /\ item_impl.items[1].kind = "Const"
    /\ item_impl.items[2] = [kind |-> "Method", ident |-> <<"U", "_">>]
    /\ fieldsImpl.returned.list = << <<"u">> >>

\* ---------------------------------------------------------------- C7
\* C7: the composite's Context is the type of the <Context = T> clause
\* when there is one and () when there is none; a clause whose
\* identifier is not Context is rejected with "expected Context" and
\* nothing is generated; with a clause, a dispatch goes, as without one,
\* to the first composable listing the name, else to the not-found error.
Thm_C7_ContextOverride ==
    (composite # None)
    => /\ input.context_ty = None
             => Generated /\ composite.context = UnitType
       /\ (input.context_ty # None
             /\ input.context_ty.context_ident = "Context")
             => Generated /\ composite.context = input.context_ty.ty
       /\ (input.context_ty # None
             /\ input.context_ty.context_ident # "Context")
             => /\ composite = [tag |-> "Error",
                                message |-> "expected Context"]
                /\ dispatch.op = "none"
                /\ metaResult = None
       /\ (Generated /\ input.context_ty # None /\ dispatch.op # "none")
             => LET hs == Holders(input.composables, dispatch.field_name)
                IN  /\ dispatch.delegate = IF hs = {} THEN 0 ELSE Least(hs)
                    /\ dispatch.result.ok
                          = (hs # {} /\ dispatch.arguments # "id=unknown")

\* a composite with Context = MyContext whose second composable resolved
\* a field
Wit_C7_OverrideThenDispatch ==
    /\ Generated
    /\ input.context_ty # None
    /\ composite.context = "MyContext"
    /\ dispatch.op = "resolve_field_async"
    /\ dispatch.delegate = 2
    /\ dispatch.result.ok

\* ---------------------------------------------------------------- C8
\* Type's derived PartialEq: same variant at every level, and at the
\* leaf Cow's PartialEq, which compares the characters
RECURSIVE TypeEq(_, _)
TypeEq(a, b) ==
    /\ a.variant = b.variant
    /\ IF IsLeaf(a) THEN a.name.str = b.name.str
       ELSE TypeEq(a.inner, b.inner)

RECURSIVE LeafCow(_)
LeafCow(t) == IF IsLeaf(t) THEN t.name.cow ELSE LeafCow(t.inner)

RECURSIVE Depth(_)
Depth(t) == IF IsLeaf(t) THEN 0 ELSE 1 + Depth(t.inner)

\* C8: type_to_owned(t) returns a type reference equal to t: the same
\* variant at every nesting level and the same name at the leaf, now
\* held in owned form.
Thm_C8_TypeToOwnedPreservesShape ==
    (owned # None)
    => /\ TypeEq(owned, ty)
       /\ Depth(owned) = Depth(ty)
       /\ LeafCow(owned) = "Owned"

\* type_to_owned returned for a borrowed non-null list nested MaxDepth
\* deep around a list
Wit_C8_DeepNonNullList ==
    /\ owned # None
    /\ Depth(ty) = MaxDepth
    /\ ty.variant = "NonNullList"
    /\ ty.inner.variant = "List"
    /\ LeafCow(ty) = "Borrowed"
    /\ owned.variant = "NonNullList"

\* --------------------------------------------------------------- C10
FutureAlone(k) ==
    LET fut == futures[k]
        hs == Holders(Composables, fut.field_name)
    IN  /\ fut.branch = IF hs = {} THEN 0 ELSE Least(hs)
        /\ fut.started <= 1
        /\ fut.started = 1 <=> (fut.branch # 0 /\ fut.lastPoll # "none")
        /\ fut.constructed = IF fut.started = 1 THEN {fut.branch} ELSE {}
        /\ fut.started = 1
             => /\ fut.lastPoll = "Pending" <=> fut.delegate.state = "pending"
                /\ fut.lastPoll = "Ready" <=> fut.delegate.state = "ready"
                /\ fut.state = "done" <=> fut.delegate.state = "ready"
                /\ fut.state = "done" => fut.output = fut.delegate.result
        /\ fut.started = 0 => fut.delegate.state = "none"
        /\ fut.state = "done"
             => fut.output =
                   IF fut.branch = 0
                   THEN [ok |-> FALSE,
                         body |-> [kind |-> "Field not found on type",
                                   field |-> fut.field_name,
                                   type |-> composite.name]]
                   ELSE [ok |-> fut.arguments # "id=unknown",
                         body |-> [by |-> fut.branch,
                                   field |-> fut.field_name,
                                   arguments |-> fut.arguments]]

\* C10: a future of resolve_field_async starts the asynchronous
\* resolution of at most one composable, at most once; once started it
\* is pending exactly when that delegate is pending and it is complete,
\* with the delegate's result, in the poll in which the delegate
\* completes; its result is the one it has when run alone, whatever
\* other futures of the same composite are in flight.
Thm_C10_AsyncFollowsDelegate ==
    \A k \in 1..MaxCalls : futures[k] # None => FutureAlone(k)

\* two futures of one composite for the same field: one still pending on
\* its delegate, the other complete with its delegate's result
Wit_C10_TwoFuturesInFlight ==
    /\ futures[1] # None
    /\ futures[2] # None
    /\ futures[1].branch # 0
    /\ futures[1].field_name = futures[2].field_name
    /\ futures[1].lastPoll = "Pending"
    /\ futures[2].state = "done"
    /\ futures[2].started = 1

====
